---- MODULE Spec2Model ----
(***************************************************************************)
(* Contact manager backend (src/backend/main.py): the contacts table, the  *)
(* Hunter.io verification client and the request handlers of the CRUD API. *)
(* Every request runs in its own database session; a handler is split at   *)
(* its awaits (database statements, the verification call), so requests    *)
(* interleave between those points.                                        *)
(***************************************************************************)
EXTENDS Integers, Sequences, FiniteSets, TLC

(* ---------------------------------------------------------------- bounds *)
\* Requests started in one behaviour when they may overlap.
MaxRequests == 2
\* Requests started in one behaviour when they are served one after another.
MaxSeqRequests == 3

(* ------------------------------------------------------------ value space *)
\* None in a string column or a string field of a request body.
NULLS == "<null>"
\* A field the request body does not mention (exclude_unset drops it).
UNSET == "<unset>"
\* None in hunter_score.
NoScore == -1
\* No score key in the service's response / no hunter_score in update_data.
AbsentScore == -2

\* Request slots: the requests that can be in flight together.
Reqs == {"r1", "r2"}

SeedAlice == [id |-> 1, first_name |-> "Alice", last_name |-> "Smith",
              email |-> "alice@example.com", phone |-> "555-1234", hunter_score |-> 85]
SeedBob == [id |-> 2, first_name |-> "Bob", last_name |-> "Johnson",
            email |-> "bob.j@test.org", phone |-> NULLS, hunter_score |-> 45]

\* The object of a session that holds no row.
NoContact == [id |-> 0, first_name |-> NULLS, last_name |-> NULLS,
              email |-> NULLS, phone |-> NULLS, hunter_score |-> NoScore]

\* The contact ids the clients name in a path: the seeds' and the next one.
PathIds == {1, 2, 3}

\* The request bodies the clients send. The emails: one a stored contact
\* holds, one nobody holds, one that is no email.
FirstNameInputs == {"Al", "A"}
LastNameInputs == {"Li", "L"}
EmailInputs == {"bob.j@test.org", "new@x.io", "not-an-email"}
PhoneInputs == {"555-0000"}

\* The query parameters of the listing as the clients send them: any int
\* passes validation; 100 is the default of limit.
SkipInputs == {-1, 0, 1}
LimitInputs == {-1, 0, 1, 100}

\* EmailStr: the inputs of EmailInputs that have valid email syntax.
EmailStr(e) == e \in {"alice@example.com", "bob.j@test.org", "new@x.io"}

\* Field(..., min_length=2) on a str.
MinLength2(s) == s \notin {NULLS, UNSET} /\ Len(s) >= 2

NoBody == [first_name |-> UNSET, last_name |-> UNSET, email |-> UNSET, phone |-> UNSET]

\* Bodies of POST and PUT as they arrive (before validation).
CreateBodies ==
    [first_name : FirstNameInputs, last_name : LastNameInputs,
     email : EmailInputs, phone : PhoneInputs]

\* ContactCreate accepts the body.
ContactCreate(b) ==
    /\ MinLength2(b.first_name)
    /\ MinLength2(b.last_name)
    /\ EmailStr(b.email)

FieldsSet(b) ==
    {f \in {"first_name", "last_name", "email", "phone"} : b[f] # UNSET}

\* The field combinations the clients' PATCH bodies set: none, or one field
\* (first_name for the two name fields, which the handler treats alike).
PatchFieldSets == {{}, {"first_name"}, {"email"}, {"phone"}}

\* Bodies of PATCH as they arrive: every field is absent, null or a value.
PatchBodies ==
    {b \in [first_name : FirstNameInputs \cup {NULLS, UNSET},
            last_name : LastNameInputs \cup {NULLS, UNSET},
            email : EmailInputs \cup {NULLS, UNSET},
            phone : PhoneInputs \cup {NULLS, UNSET}] :
        FieldsSet(b) \in PatchFieldSets}

\* ContactUpdate accepts the body: Optional[...] admits an explicit null.
ContactUpdate(b) ==
    /\ b.first_name \in {NULLS, UNSET} \/ MinLength2(b.first_name)
    /\ b.last_name \in {NULLS, UNSET} \/ MinLength2(b.last_name)
    /\ b.email \in {NULLS, UNSET} \/ EmailStr(b.email)

(* ------------------------------------------------- verification client *)
\* What the external service does with one GET.
Responses ==
    {[kind |-> "ok", score |-> 85],
     [kind |-> "ok", score |-> AbsentScore],
     [kind |-> "ok", score |-> NoScore],
     [kind |-> "bad_body", score |-> AbsentScore],
     [kind |-> "http_error", score |-> AbsentScore],
     [kind |-> "network_error", score |-> AbsentScore]}

\* No GET was made.
NoResponse == [kind |-> "none", score |-> AbsentScore]

\* Mutant: the default of .get('score', 50) is lost.
verify_email_hunter_NoDefault(key, resp) ==
    IF ~key
    THEN [score |-> 50, status |-> "mocked_key", called |-> FALSE]
    ELSE CASE resp.kind = "ok" ->
                [score |-> resp.score, status |-> "verified", called |-> TRUE]
           [] resp.kind = "http_error" ->
                [score |-> 40, status |-> "api_error", called |-> TRUE]
           [] resp.kind = "network_error" ->
                [score |-> 45, status |-> "network_error", called |-> TRUE]
           [] OTHER ->
                [score |-> 48, status |-> "unexpected_error", called |-> TRUE]

verify_email_hunter(key, resp) ==
    IF ~key
    THEN [score |-> 50, status |-> "mocked_key", called |-> FALSE]
    ELSE CASE resp.kind = "ok" ->
                [score |-> IF resp.score = AbsentScore THEN 50 ELSE resp.score,
                 status |-> "verified", called |-> TRUE]
           [] resp.kind = "http_error" ->
                [score |-> 40, status |-> "api_error", called |-> TRUE]
           [] resp.kind = "network_error" ->
                [score |-> 45, status |-> "network_error", called |-> TRUE]
           [] OTHER ->
                [score |-> 48, status |-> "unexpected_error", called |-> TRUE]

\* The responses a verification call can meet under the configured key.
ResponsesFor(key) == IF key THEN Responses ELSE {NoResponse}

NoVerification == [score |-> AbsentScore, status |-> "none", called |-> FALSE]

(* ------------------------------------------------------------ the table *)
Ids(rows) == {c.id : c \in rows}

RowOf(rows, id) == CHOOSE c \in rows : c.id = id

\* select(Contact).where(Contact.email == e): a row is found.
EmailTaken(rows, e) == \E c \in rows : c.email = e

\* select(Contact).where(Contact.id == id).
SelectById(rows, id) == IF id \in Ids(rows) THEN RowOf(rows, id) ELSE NoContact

\* INTEGER PRIMARY KEY without AUTOINCREMENT: one more than the largest id.
NextId(rows) ==
    IF rows = {} THEN 1
    ELSE (CHOOSE i \in Ids(rows) : \A j \in Ids(rows) : j <= i) + 1

\* Mutant: the email column is not unique.
UniqueViolation_Off(rows, id, e) == FALSE

\* unique=True on email: another row holds the email.
UniqueViolation(rows, id, e) == \E c \in rows : c.id # id /\ c.email = e

\* Mutant: the three columns are nullable.
NotNullViolation_Off(c) == FALSE

\* nullable=False on first_name, last_name and email.
NotNullViolation(c) ==
    c.first_name = NULLS \/ c.last_name = NULLS \/ c.email = NULLS


\* session.add + commit of create_contact: the INSERT and what it raises.
Insert(rows, c) ==
    IF UniqueViolation(rows, 0, c.email) \/ NotNullViolation(c)
    THEN [error |-> "IntegrityError", rows |-> rows, row |-> NoContact]
    ELSE LET new == [c EXCEPT !.id = NextId(rows)]
         IN [error |-> "none", rows |-> rows \cup {new}, row |-> new]

\* The row an UPDATE leaves: only the attributes whose value differs from the
\* loaded one are in the SET clause; the row itself is found by primary key.
Updated(old, loaded, current) ==
    [id |-> old.id,
     first_name |-> IF current.first_name # loaded.first_name
                    THEN current.first_name ELSE old.first_name,
     last_name |-> IF current.last_name # loaded.last_name
                   THEN current.last_name ELSE old.last_name,
     email |-> IF current.email # loaded.email THEN current.email ELSE old.email,
     phone |-> IF current.phone # loaded.phone THEN current.phone ELSE old.phone,
     hunter_score |-> IF current.hunter_score # loaded.hunter_score
                      THEN current.hunter_score ELSE old.hunter_score]

\* Mutant: an UPDATE that finds no row writes the session's object as a row.
Flush_Upsert(rows, loaded, current) ==
    IF current = loaded
    THEN [error |-> "none", rows |-> rows]
    ELSE IF loaded.id \notin Ids(rows)
    THEN [error |-> "none", rows |-> rows \cup {current}]
    ELSE LET old == RowOf(rows, loaded.id)
             new == Updated(old, loaded, current)
         IN IF NotNullViolation(new) \/ UniqueViolation(rows, new.id, new.email)
            THEN [error |-> "IntegrityError", rows |-> rows]
            ELSE [error |-> "none", rows |-> (rows \ {old}) \cup {new}]

\* Mutant: the UPDATE is a delete and a fresh insert, under a new id.
Flush_Reinsert(rows, loaded, current) ==
    IF current = loaded
    THEN [error |-> "none", rows |-> rows]
    ELSE IF loaded.id \notin Ids(rows)
    THEN [error |-> "StaleDataError", rows |-> rows]
    ELSE LET old == RowOf(rows, loaded.id)
             new == [Updated(old, loaded, current) EXCEPT !.id = NextId(rows)]
         IN IF NotNullViolation(new) \/ UniqueViolation(rows, old.id, new.email)
            THEN [error |-> "IntegrityError", rows |-> rows]
            ELSE [error |-> "none", rows |-> (rows \ {old}) \cup {new}]

\* commit of a session whose object was loaded as `loaded` and now reads
\* `current`: no statement when nothing changed, else one UPDATE by id.
Flush(rows, loaded, current) ==
    IF current = loaded
    THEN [error |-> "none", rows |-> rows]
    ELSE IF loaded.id \notin Ids(rows)
    THEN [error |-> "StaleDataError", rows |-> rows]
    ELSE LET old == RowOf(rows, loaded.id)
             new == Updated(old, loaded, current)
         IN IF NotNullViolation(new) \/ UniqueViolation(rows, new.id, new.email)
            THEN [error |-> "IntegrityError", rows |-> rows]
            ELSE [error |-> "none", rows |-> (rows \ {old}) \cup {new}]

\* delete(Contact).where(Contact.id == id): the rows left.
DeleteById(rows, id) == {c \in rows : c.id # id}

\* ORDER BY contacts.id: the rows as a sequence, smallest id first.
RECURSIVE OrderById(_)
OrderById(rows) ==
    IF rows = {} THEN << >>
    ELSE LET first == CHOOSE c \in rows : \A d \in rows : c.id <= d.id
         IN <<first>> \o OrderById(rows \ {first})

\* SELECT ... ORDER BY id LIMIT limit OFFSET skip as SQLite evaluates it: a
\* negative OFFSET is 0, a negative LIMIT is no limit.
SelectPage(rows, skip, limit) ==
    LET all == OrderById(rows)
        offset == IF skip < 0 THEN 0 ELSE skip
        rest == SubSeq(all, offset + 1, Len(all))
    IN IF limit < 0 \/ limit >= Len(rest) THEN rest ELSE SubSeq(rest, 1, limit)

(* ---------------------------------------------------------------- state *)
VARIABLES
    configured,   \* HUNTER_API_KEY holds a real key
    store,        \* the rows of the contacts table
    req,          \* the requests in flight, one record per slot
    started,      \* requests started so far
    origin,       \* history: per contact id, the score of the verification call
                  \* of the request that created it or last changed its email
    overlap       \* the clients send a request while another is in flight

vars == <<configured, store, req, started, origin, overlap>>

\* A free slot. calls counts the handler's calls of verify_email_hunter.
Idle == [kind |-> "idle", pc |-> "idle", cid |-> 0, body |-> NoBody,
         obj |-> NoContact, ver |-> NoVerification, resp |-> NoResponse,
         result |-> "none", ret |-> NoContact,
         skip |-> 0, limit |-> 0, contacts |-> << >>,
         calls |-> 0]

\* on_startup on an empty database: the table with the two seed rows.
Startup ==
    /\ configured \in BOOLEAN
    /\ store = {SeedAlice, SeedBob}
    /\ req = [r \in Reqs |-> Idle]
    /\ started = 0
    /\ origin = {[id |-> 1, score |-> AbsentScore], [id |-> 2, score |-> AbsentScore]}

\* History bookkeeping for `origin`.
OriginSet(o, id, score) == {x \in o : x.id # id} \cup {[id |-> id, score |-> score]}
OriginDrop(o, id) == {x \in o : x.id # id}
OriginOf(o, id) == (CHOOSE x \in o : x.id = id).score
\* A seed row keeps its mark; a created row records the request's score.
OriginAfterUpdate(o, rows, rows2, id, score) ==
    IF /\ id \in Ids(rows) /\ id \in Ids(rows2)
       /\ RowOf(rows, id).email # RowOf(rows2, id).email
       /\ OriginOf(o, id) # AbsentScore
    THEN OriginSet(o, id, score)
    ELSE o

Init == Startup /\ overlap = TRUE

InitSeq == Startup /\ overlap = FALSE

\* A handler that has returned is answered before anything else runs: the
\* response is sent in the same turn of the event loop.
Answering == \E r \in Reqs : req[r].pc = "done"

\* A request takes the first free slot (which slot serves it changes nothing).
Begin(r) ==
    /\ req[r].pc = "idle"
    /\ r = "r2" => overlap /\ req["r1"].pc # "idle"
    /\ started < (IF overlap THEN MaxRequests ELSE MaxSeqRequests)
    /\ ~Answering

\* r's handler resumes at the await it was suspended at.
At(r, kind, pc) == req[r].kind = kind /\ req[r].pc = pc /\ ~Answering

\* The handler raised or returned: the response is out.
Done(s, result, ret) == [s EXCEPT !.pc = "done", !.result = result, !.ret = ret]

\* A body the schema rejects: FastAPI answers 422 before the handler runs.
Rejected(kind) == [Idle EXCEPT !.kind = kind, !.pc = "done", !.result = "ValidationError"]

\* s has executed a statement that writes (the INSERT or UPDATE flushed by
\* db.commit(), the DELETE of delete_contact) and has not yet sent the COMMIT
\* or ROLLBACK that ends its transaction: its connection holds SQLite's write
\* lock. A refused statement and one that matched no row hold it as well.
HoldsLock(s) ==
    \/ s.pc \in {"flushed", "failed"}
    \/ s.kind = "delete" /\ s.pc \in {"commit", "close"}

\* Another request holds the write lock. A statement of r that writes waits
\* for it (r takes its step later) or, when the busy timeout runs out first,
\* raises OperationalError (database is locked).
WriteLocked(r) == \E q \in Reqs \ {r} : HoldsLock(req[q])

\* Another request has a SELECT executed and not yet fetched (the statement
\* its next step rests on, or the first one of a request that is arriving):
\* its connection holds a read lock. A COMMIT waits for the lock to go (r
\* takes its step later) or, when the busy timeout runs out first, raises
\* OperationalError (database is locked) and nothing is committed.
ReadLocked(r) ==
    /\ overlap
    /\ \E q \in Reqs \ {r} :
          \/ req[q].pc \in {"check", "refresh"}
          \/ req[q].pc = "idle" /\ started < MaxRequests

\* Another request's COMMIT was refused and its ROLLBACK is still to be sent:
\* its connection keeps the pending lock, under which no new read starts.
PendingLocked(r) ==
    \E q \in Reqs \ {r} : req[q].pc = "failed" /\ req[q].result = "OperationalError"

\* Whether a SELECT of r raises OperationalError (database is locked). Under
\* the pending lock of another request it does when the busy timeout runs out
\* before the ROLLBACK; it does not when it is the SELECT whose read lock
\* refused the COMMIT, which was executed before and is fetched now.
SelectRefused(r) == IF PendingLocked(r) THEN {FALSE, TRUE} ELSE {FALSE}

\* The handler raised inside db.commit(): the ROLLBACK is still to be sent.
Failed(s, error) == [s EXCEPT !.pc = "failed", !.result = error]

(* ------------------------------------------------------- create_contact *)
\* Mutant: the check comes first and a duplicate is refused unverified.
CreateVerify_CheckFirst(r) ==
    /\ Begin(r)
    /\ \E b \in CreateBodies, resp \in ResponsesFor(configured) :
          req' = [req EXCEPT ![r] =
                    IF ~ContactCreate(b) THEN Rejected("create")
                    ELSE IF EmailTaken(store, b.email)
                    THEN Done([Idle EXCEPT !.kind = "create", !.body = b],
                              "Conflict", NoContact)
                    ELSE [Idle EXCEPT !.kind = "create", !.pc = "check", !.body = b,
                                      !.resp = resp, !.calls = 1,
                                      !.ver = verify_email_hunter(configured, resp)]]
    /\ started' = started + 1
    /\ UNCHANGED <<configured, store, origin, overlap>>

\* The request arrives; 1. verification_result = await verify_email_hunter(email)
CreateVerify(r) ==
    /\ Begin(r)
    /\ \E b \in CreateBodies, resp \in ResponsesFor(configured) :
          req' = [req EXCEPT ![r] =
                    IF ContactCreate(b)
                    THEN [Idle EXCEPT !.kind = "create", !.pc = "check", !.body = b,
                                      !.resp = resp, !.calls = 1,
                                      !.ver = verify_email_hunter(configured, resp)]
                    ELSE Rejected("create")]
    /\ started' = started + 1
    /\ UNCHANGED <<configured, store, origin, overlap>>

\* Mutant: the check also sees a create of the same email that is about to
\* write (check and write under one lock).
CreateCheck_Locked(r) ==
    /\ At(r, "create", "check")
    /\ \E refused \in SelectRefused(r) :
          req' = [req EXCEPT ![r] =
                 IF refused THEN Done(req[r], "OperationalError", NoContact)
                 ELSE IF \/ EmailTaken(store, req[r].body.email)
                    \/ \E q \in Reqs \ {r} :
                          /\ req[q].kind = "create" /\ req[q].pc = "commit"
                          /\ req[q].body.email = req[r].body.email
                 THEN Done(req[r], "Conflict", NoContact)
                 ELSE [req[r] EXCEPT !.pc = "commit"]]
    /\ UNCHANGED <<configured, store, started, origin, overlap>>

\* 2. the application's check for an existing email (409), a SELECT
CreateCheck(r) ==
    /\ At(r, "create", "check")
    /\ \E refused \in SelectRefused(r) :
          req' = [req EXCEPT ![r] =
                 IF refused THEN Done(req[r], "OperationalError", NoContact)
                 ELSE IF EmailTaken(store, req[r].body.email)
                 THEN Done(req[r], "Conflict", NoContact)
                 ELSE [req[r] EXCEPT !.pc = "commit"]]
    /\ UNCHANGED <<configured, store, started, origin, overlap>>

\* Mutant: the contact is built with the default score, not the call's.
NewContact_Default(b, score) ==
    [id |-> 0, first_name |-> b.first_name, last_name |-> b.last_name,
     email |-> b.email, phone |-> b.phone, hunter_score |-> 50]

\* 3. the Contact built from the body and the score
NewContact(b, score) ==
    [id |-> 0, first_name |-> b.first_name, last_name |-> b.last_name,
     email |-> b.email, phone |-> b.phone, hunter_score |-> score]

\* 4. db.add(db_contact); await db.commit(), first part: the flush sends the
\* INSERT inside a transaction. The others see the table as it was.
CreateFlush(r) ==
    /\ At(r, "create", "commit")
    /\ LET ins == Insert(store, NewContact(req[r].body, req[r].ver.score))
       IN req' = [req EXCEPT ![r] =
                    IF WriteLocked(r) THEN Done(req[r], "OperationalError", NoContact)
                    ELSE IF ins.error = "none" THEN [req[r] EXCEPT !.pc = "flushed"]
                    ELSE Failed(req[r], ins.error)]
    /\ UNCHANGED <<configured, store, started, origin, overlap>>

\* await db.commit(), second part: the COMMIT makes the row visible, or is
\* refused for a reader's lock.
CreateCommit(r) ==
    /\ At(r, "create", "flushed")
    /\ LET ins == Insert(store, NewContact(req[r].body, req[r].ver.score))
       IN \/ /\ store' = ins.rows
             /\ origin' = OriginSet(origin, ins.row.id, req[r].ver.score)
             /\ req' = [req EXCEPT ![r].pc = "refresh", ![r].obj = ins.row]
          \/ /\ ReadLocked(r)
             /\ req' = [req EXCEPT ![r] = Failed(req[r], "OperationalError")]
             /\ UNCHANGED <<store, origin>>
    /\ UNCHANGED <<configured, started, overlap>>

\* The ROLLBACK after a refused statement or a refused COMMIT: the exception
\* leaves the handler.
Rollback(r) ==
    /\ req[r].kind \in {"create", "put", "patch", "delete"}
    /\ At(r, req[r].kind, "failed")
    /\ req' = [req EXCEPT ![r] = Done(req[r], req[r].result, NoContact)]
    /\ UNCHANGED <<configured, store, started, origin, overlap>>

\* await db.refresh(db_contact); return db_contact. The refresh is a SELECT:
\* it can be refused, and it raises when the row is gone.
Refresh(r) ==
    /\ req[r].kind \in {"create", "put", "patch"}
    /\ At(r, req[r].kind, "refresh")
    /\ \E refused \in SelectRefused(r) :
          req' = [req EXCEPT ![r] =
                 IF refused THEN Done(req[r], "OperationalError", NoContact)
                 ELSE IF req[r].obj.id \in Ids(store)
                 THEN Done(req[r], "OK", RowOf(store, req[r].obj.id))
                 ELSE Done(req[r], "InvalidRequestError", NoContact)]
    /\ UNCHANGED <<configured, store, started, origin, overlap>>

(* --------------------------------------------------- update_contact_put *)
\* The request arrives; the contact is fetched (404) and its email compared.
PutGet(r) ==
    /\ Begin(r)
    /\ \E id \in PathIds, b \in CreateBodies, refused \in SelectRefused(r) :
          LET s == [Idle EXCEPT !.kind = "put", !.cid = id, !.body = b,
                                !.obj = SelectById(store, id)]
          IN req' = [req EXCEPT ![r] =
                       IF ~ContactCreate(b) THEN Rejected("put")
                       ELSE IF refused
                       THEN Done([s EXCEPT !.obj = NoContact], "OperationalError",
                                 NoContact)
                       ELSE IF s.obj = NoContact THEN Done(s, "NotFound", NoContact)
                       ELSE IF s.obj.email # b.email THEN [s EXCEPT !.pc = "check"]
                       ELSE [s EXCEPT !.pc = "commit"]]
    /\ started' = started + 1
    /\ UNCHANGED <<configured, store, origin, overlap>>

\* the email changed: is it in use (409), a SELECT
PutCheck(r) ==
    /\ At(r, "put", "check")
    /\ \E refused \in SelectRefused(r) :
          req' = [req EXCEPT ![r] =
                 IF refused THEN Done(req[r], "OperationalError", NoContact)
                 ELSE IF EmailTaken(store, req[r].body.email)
                 THEN Done(req[r], "Conflict", NoContact)
                 ELSE [req[r] EXCEPT !.pc = "verify"]]
    /\ UNCHANGED <<configured, store, started, origin, overlap>>

\* re-verify the score
PutVerify(r) ==
    /\ At(r, "put", "verify")
    /\ \E resp \in ResponsesFor(configured) :
          req' = [req EXCEPT ![r].pc = "commit", ![r].resp = resp,
                             ![r].calls = @ + 1,
                             ![r].ver = verify_email_hunter(configured, resp)]
    /\ UNCHANGED <<configured, store, started, origin, overlap>>

\* Mutant: without a new verification the score is reset.
PutAssign_ResetScore(obj, b, ver) ==
    [id |-> obj.id, first_name |-> b.first_name, last_name |-> b.last_name,
     email |-> b.email, phone |-> b.phone,
     hunter_score |-> IF ver.status # "none" THEN ver.score ELSE NoScore]

\* The attributes of db_contact after the five assignments of PUT.
PutAssign(obj, b, ver) ==
    [id |-> obj.id, first_name |-> b.first_name, last_name |-> b.last_name,
     email |-> b.email, phone |-> b.phone,
     hunter_score |-> IF ver.status # "none" THEN ver.score ELSE obj.hunter_score]

\* await db.commit() of an update, first part: the flush sends the UPDATE
\* inside a transaction; with nothing changed there is no statement and the
\* commit is done.
UpdateFlush(r, current) ==
    LET fl == Flush(store, req[r].obj, current)
    IN req' = [req EXCEPT ![r] =
                 IF current = req[r].obj THEN [req[r] EXCEPT !.pc = "refresh"]
                 ELSE IF WriteLocked(r) THEN Done(req[r], "OperationalError", NoContact)
                 ELSE IF fl.error = "none" THEN [req[r] EXCEPT !.pc = "flushed"]
                 ELSE Failed(req[r], fl.error)]

\* await db.commit() of an update, second part: the COMMIT, or its refusal
\* for a reader's lock.
UpdateCommit(r, current) ==
    LET fl == Flush(store, req[r].obj, current)
    IN \/ /\ store' = fl.rows
          /\ origin' = OriginAfterUpdate(origin, store, fl.rows, req[r].obj.id,
                                         req[r].ver.score)
          /\ req' = [req EXCEPT ![r].pc = "refresh", ![r].obj = current]
       \/ /\ ReadLocked(r)
          /\ req' = [req EXCEPT ![r] = Failed(req[r], "OperationalError")]
          /\ UNCHANGED <<store, origin>>

PutFlush(r) ==
    /\ At(r, "put", "commit")
    /\ UpdateFlush(r, PutAssign(req[r].obj, req[r].body, req[r].ver))
    /\ UNCHANGED <<configured, store, started, origin, overlap>>

PutCommit(r) ==
    /\ At(r, "put", "flushed")
    /\ UpdateCommit(r, PutAssign(req[r].obj, req[r].body, req[r].ver))
    /\ UNCHANGED <<configured, started, overlap>>

(* ------------------------------------------------- update_contact_patch *)
\* 'email' in update_data and update_data['email'] != db_contact.email
PatchChangesEmail(obj, b) == b.email # UNSET /\ b.email # obj.email

\* The request arrives; the contact is fetched (404) and update_data built.
PatchGet(r) ==
    /\ Begin(r)
    /\ \E id \in PathIds, b \in PatchBodies, refused \in SelectRefused(r) :
          LET s == [Idle EXCEPT !.kind = "patch", !.cid = id, !.body = b,
                                !.obj = SelectById(store, id)]
          IN req' = [req EXCEPT ![r] =
                       IF ~ContactUpdate(b) THEN Rejected("patch")
                       ELSE IF refused
                       THEN Done([s EXCEPT !.obj = NoContact], "OperationalError",
                                 NoContact)
                       ELSE IF s.obj = NoContact THEN Done(s, "NotFound", NoContact)
                       ELSE IF PatchChangesEmail(s.obj, b) THEN [s EXCEPT !.pc = "check"]
                       ELSE [s EXCEPT !.pc = "commit"]]
    /\ started' = started + 1
    /\ UNCHANGED <<configured, store, origin, overlap>>

\* 1. check for conflict (409), a SELECT
PatchCheck(r) ==
    /\ At(r, "patch", "check")
    /\ \E refused \in SelectRefused(r) :
          req' = [req EXCEPT ![r] =
                 IF refused THEN Done(req[r], "OperationalError", NoContact)
                 ELSE IF EmailTaken(store, req[r].body.email)
                 THEN Done(req[r], "Conflict", NoContact)
                 ELSE [req[r] EXCEPT !.pc = "verify"]]
    /\ UNCHANGED <<configured, store, started, origin, overlap>>

\* 2. re-verify the score
PatchVerify(r) ==
    /\ At(r, "patch", "verify")
    /\ \E resp \in ResponsesFor(configured) :
          req' = [req EXCEPT ![r].pc = "commit", ![r].resp = resp,
                             ![r].calls = @ + 1,
                             ![r].ver = verify_email_hunter(configured, resp)]
    /\ UNCHANGED <<configured, store, started, origin, overlap>>

\* Mutant: PATCH overwrites the phone like PUT, absent or not.
PatchAssign_Overwrite(obj, b, ver) ==
    [id |-> obj.id,
     first_name |-> IF b.first_name # UNSET THEN b.first_name ELSE obj.first_name,
     last_name |-> IF b.last_name # UNSET THEN b.last_name ELSE obj.last_name,
     email |-> IF b.email # UNSET THEN b.email ELSE obj.email,
     phone |-> IF b.phone # UNSET THEN b.phone ELSE NULLS,
     hunter_score |-> IF ver.status # "none" THEN ver.score ELSE obj.hunter_score]

\* The attributes of db_contact after setattr over update_data.
PatchAssign(obj, b, ver) ==
    [id |-> obj.id,
     first_name |-> IF b.first_name # UNSET THEN b.first_name ELSE obj.first_name,
     last_name |-> IF b.last_name # UNSET THEN b.last_name ELSE obj.last_name,
     email |-> IF b.email # UNSET THEN b.email ELSE obj.email,
     phone |-> IF b.phone # UNSET THEN b.phone ELSE obj.phone,
     hunter_score |-> IF ver.status # "none" THEN ver.score ELSE obj.hunter_score]

PatchFlush(r) ==
    /\ At(r, "patch", "commit")
    /\ UpdateFlush(r, PatchAssign(req[r].obj, req[r].body, req[r].ver))
    /\ UNCHANGED <<configured, store, started, origin, overlap>>

PatchCommit(r) ==
    /\ At(r, "patch", "flushed")
    /\ UpdateCommit(r, PatchAssign(req[r].obj, req[r].body, req[r].ver))
    /\ UNCHANGED <<configured, started, overlap>>

(* ------------------------------------------------------- delete_contact *)
\* The request arrives; result = await db.execute(stmt): the DELETE runs in
\* the session's transaction, which takes the write lock; its rowcount says
\* whether a row matched. Nothing is committed: the others see the table as
\* it was.
DeleteExecute(r) ==
    /\ Begin(r)
    /\ \E id \in PathIds :
          LET s == [Idle EXCEPT !.kind = "delete", !.cid = id]
          IN req' = [req EXCEPT ![r] =
                       IF WriteLocked(r) THEN Done(s, "OperationalError", NoContact)
                       ELSE IF id \in Ids(store) THEN [s EXCEPT !.pc = "commit"]
                       ELSE [s EXCEPT !.pc = "close"]]
    /\ started' = started + 1
    /\ UNCHANGED <<configured, store, origin, overlap>>

\* rowcount == 0: HTTPException(404); the session is closed, which rolls the
\* transaction back and frees the lock.
DeleteClose(r) ==
    /\ At(r, "delete", "close")
    /\ req' = [req EXCEPT ![r] = Done(req[r], "NotFound", NoContact)]
    /\ UNCHANGED <<configured, store, started, origin, overlap>>

\* await db.commit(): the row is gone for everyone, or the COMMIT is refused
\* for a reader's lock and the row stays.
DeleteCommit(r) ==
    /\ At(r, "delete", "commit")
    /\ \/ /\ store' = DeleteById(store, req[r].cid)
          /\ origin' = OriginDrop(origin, req[r].cid)
          /\ req' = [req EXCEPT ![r] = Done(req[r], "OK", NoContact)]
       \/ /\ ReadLocked(r)
          /\ req' = [req EXCEPT ![r] = Failed(req[r], "OperationalError")]
          /\ UNCHANGED <<store, origin>>
    /\ UNCHANGED <<configured, started, overlap>>

(* --------------------------------------------------------- read_contact *)
ReadContact(r) ==
    /\ Begin(r)
    /\ \E id \in PathIds, refused \in SelectRefused(r) :
          LET s == [Idle EXCEPT !.kind = "get", !.cid = id]
          IN req' = [req EXCEPT ![r] =
                       IF refused THEN Done(s, "OperationalError", NoContact)
                       ELSE IF SelectById(store, id) = NoContact
                       THEN Done(s, "NotFound", NoContact)
                       ELSE Done(s, "OK", SelectById(store, id))]
    /\ started' = started + 1
    /\ UNCHANGED <<configured, store, origin, overlap>>

(* -------------------------------------------------------- read_contacts *)
\* One SELECT with offset, limit and order_by; the rows are returned, or the
\* SELECT is refused under another request's pending lock.
ReadContacts(r) ==
    /\ Begin(r)
    /\ \E skip \in SkipInputs, limit \in LimitInputs, refused \in SelectRefused(r) :
          req' = [req EXCEPT ![r] =
                    IF refused
                    THEN [Done([Idle EXCEPT !.kind = "list"], "OperationalError",
                               NoContact)
                            EXCEPT !.skip = skip, !.limit = limit]
                    ELSE [Done([Idle EXCEPT !.kind = "list"], "OK", NoContact)
                            EXCEPT !.skip = skip, !.limit = limit,
                                   !.contacts = SelectPage(store, skip, limit)]]
    /\ started' = started + 1
    /\ UNCHANGED <<configured, store, origin, overlap>>

(* ------------------------------------------------ verify_email_endpoint *)
\* Mutant: an email a stored contact holds is answered from the table.
VerifyEmail_Cached(r) ==
    /\ Begin(r)
    /\ \E e \in EmailInputs, resp \in ResponsesFor(configured) :
          req' = [req EXCEPT ![r] =
                    IF ~EmailStr(e) THEN Rejected("verify")
                    ELSE Done([Idle EXCEPT !.kind = "verify", !.body.email = e,
                                           !.resp = resp, !.calls = 1,
                                           !.ver =
                                              IF EmailTaken(store, e)
                                              THEN [score |-> (CHOOSE c \in store :
                                                                 c.email = e).hunter_score,
                                                    status |-> "verified",
                                                    called |-> FALSE]
                                              ELSE verify_email_hunter(configured, resp)],
                              "OK", NoContact)]
    /\ started' = started + 1
    /\ UNCHANGED <<configured, store, origin, overlap>>

\* result = await verify_email_hunter(email); the result is returned.
VerifyEmail(r) ==
    /\ Begin(r)
    /\ \E e \in EmailInputs, resp \in ResponsesFor(configured) :
          req' = [req EXCEPT ![r] =
                    IF ~EmailStr(e) THEN Rejected("verify")
                    ELSE Done([Idle EXCEPT !.kind = "verify", !.body.email = e,
                                           !.resp = resp, !.calls = 1,
                                           !.ver = verify_email_hunter(configured, resp)],
                              "OK", NoContact)]
    /\ started' = started + 1
    /\ UNCHANGED <<configured, store, origin, overlap>>

\* The response has left: the slot is free for the next request.
Respond(r) ==
    /\ req[r].pc = "done"
    /\ req' = [req EXCEPT ![r] = Idle]
    /\ UNCHANGED <<configured, store, started, origin, overlap>>

(* -------------------------------------------------------- specifications *)
\* Requests interleave at their awaits.
Next ==
    \E r \in Reqs :
        \/ CreateVerify(r) \/ CreateCheck(r) \/ CreateFlush(r) \/ CreateCommit(r)
        \/ PutGet(r) \/ PutCheck(r) \/ PutVerify(r) \/ PutFlush(r) \/ PutCommit(r)
        \/ PatchGet(r) \/ PatchCheck(r) \/ PatchVerify(r) \/ PatchFlush(r)
        \/ PatchCommit(r)
        \/ Rollback(r) \/ Refresh(r)
        \/ DeleteExecute(r) \/ DeleteClose(r) \/ DeleteCommit(r)
        \/ ReadContact(r) \/ ReadContacts(r) \/ VerifyEmail(r)
        \/ Respond(r)

\* The clients overlap their requests.
Spec == Init /\ [][Next]_vars

\* The clients send one request at a time.
SpecSeq == InitSeq /\ [][Next]_vars

(* ================================================================ claims *)
\* The failures the API declares.
Declared == {"OK", "NotFound", "Conflict", "ValidationError"}

\* r takes a step.
Steps(r) == req'[r] # req[r]

\* r's handler starts with this step.
Starts(r, kind) == req[r].pc = "idle" /\ req'[r].kind = kind

(* C1: in every reachable state, under every interleaving of the requests,
   no two contacts hold the same email. *)
C1_UniqueEmail ==
    \A c \in store, d \in store : c.email = d.email => c = d

\* Two requests raced for one email and the table's constraint refused one.
C1_Witness ==
    \E r \in Reqs :
        /\ req[r].pc = "done" /\ req[r].result = "IntegrityError"
        /\ req[r].kind = "create"
        /\ \E c \in store : c.email = req[r].body.email

(* C2: every request ends in success or in NotFound, Conflict or
   ValidationError, and in no other failure. *)
C2_OnlyDeclaredFailures ==
    \A r \in Reqs : req[r].pc = "done" => req[r].result \in Declared

(* C3: a create whose email a stored contact holds makes no write, and its
   check ends it with Conflict, leaving the store as it was with exactly one
   contact holding that email. *)
C3_CreateConflict ==
    [][\A r \in Reqs :
         /\ Starts(r, "create") => store' = store
         /\ ( /\ req[r].kind = "create" /\ req[r].pc = "check" /\ Steps(r)
              /\ \E c \in store : c.email = req[r].body.email )
            => /\ req'[r].pc = "done" /\ req'[r].result = "Conflict"
               /\ store' = store
               /\ Cardinality({c \in store' : c.email = req[r].body.email}) = 1
      ]_vars

\* The email r's update ends with is the one its contact was loaded with.
KeepsEmail(s) ==
    \/ s.kind = "put" /\ s.body.email = s.obj.email
    \/ s.kind = "patch" /\ s.body.email \in {UNSET, s.obj.email}

(* C4: a PUT or PATCH on an existing contact whose resulting email is the
   contact's current one makes no verification call, and its write leaves the
   hunter_score of the contact (and of every contact) as it was. *)
C4_ScoreKept ==
    [][\A r \in Reqs :
         /\ ( /\ req'[r].kind \in {"put", "patch"} /\ Steps(r)
              /\ req[r].pc # "flushed" /\ req'[r].pc # "idle" )
            => store' = store /\ (req[r].pc = "refresh" => req'[r].ver = req[r].ver)
         /\ ( /\ req[r].kind \in {"put", "patch"} /\ Steps(r)
              /\ req[r].pc \in {"commit", "flushed"}
              /\ KeepsEmail(req[r]) )
            =>
            /\ req[r].ver = NoVerification /\ req'[r].ver = NoVerification
            /\ \A c \in store, d \in store' :
                  c.id = d.id => d.hunter_score = c.hunter_score
            /\ req'[r].pc = "refresh" => req'[r].obj.hunter_score = req[r].obj.hunter_score
      ]_vars

\* A PUT that kept the email and changed another field has answered.
C4_Witness ==
    \E r \in Reqs :
        /\ req[r].kind = "put" /\ req[r].pc = "done" /\ req[r].result = "OK"
        /\ req[r].ver = NoVerification
        /\ req[r].ret.email = req[r].body.email
        /\ req[r].ret.first_name = "Al" /\ req[r].ret.hunter_score = SeedBob.hunter_score

(* C5: a PUT or PATCH that changes the email to one a different contact holds
   ends with Conflict at its check, and no step of it writes: both contacts
   stay as they were. *)
C5_UpdateConflict ==
    [][\A r \in Reqs :
         /\ (Starts(r, "put") \/ Starts(r, "patch")) => store' = store
         /\ ( /\ req[r].kind \in {"put", "patch"} /\ req[r].pc = "check" /\ Steps(r)
              /\ \E c \in store : c.id # req[r].cid /\ c.email = req[r].body.email )
            => /\ req'[r].pc = "done" /\ req'[r].result = "Conflict"
               /\ store' = store
      ]_vars

(* C6: a delete of an id no contact has ends with NotFound and writes
   nothing; a delete of an existing id ends with success and removes that
   contact alone, so that a delete or a get of the id right after it ends
   with NotFound. *)
C6_Delete ==
    [][\A r \in Reqs :
         /\ Starts(r, "delete") =>
               /\ store' = store
               /\ req'[r].pc = (IF req'[r].cid \in Ids(store) THEN "commit" ELSE "close")
         /\ (req[r].kind = "delete" /\ req[r].pc = "close" /\ Steps(r)) =>
               /\ req'[r].pc = "done" /\ req'[r].result = "NotFound"
               /\ store' = store
         /\ (req[r].kind = "delete" /\ req[r].pc = "commit" /\ Steps(r)) =>
               /\ req'[r].pc = "done" /\ req'[r].result = "OK"
               /\ req[r].cid \in Ids(store)
               /\ store' = {c \in store : c.id # req[r].cid}
               /\ req[r].cid \notin Ids(store')
         /\ Starts(r, "get") =>
               /\ store' = store
               /\ IF req'[r].cid \in Ids(store)
                  THEN req'[r].result = "OK" /\ req'[r].ret \in store
                  ELSE req'[r].result = "NotFound"
      ]_vars

(* C7: the contact a successful create returns has an id no other stored
   contact has, and a hunter_score that is not null. *)
C7_CreateReturn ==
    \A r \in Reqs :
        (req[r].kind = "create" /\ req[r].pc = "done" /\ req[r].result = "OK")
        => /\ req[r].ret.hunter_score # NoScore
           /\ \A c \in store : c.id = req[r].ret.id => c = req[r].ret

(* C8: the verification client answers every call with one result that the
   outcome determines: 50/mocked_key without a key and without a GET; with a
   key, the response's score (50 when it has none) as verified, 40 on an HTTP
   error, 45 on a network error, 48 on any other failure. *)
C8_VerificationResult ==
    \A r \in Reqs :
        req[r].ver # NoVerification =>
            IF ~configured
            THEN req[r].ver = [score |-> 50, status |-> "mocked_key", called |-> FALSE]
            ELSE /\ req[r].ver.called
                 /\ req[r].resp.kind = "ok" =>
                       /\ req[r].ver.status = "verified"
                       /\ req[r].ver.score =
                            IF req[r].resp.score = AbsentScore THEN 50
                            ELSE req[r].resp.score
                 /\ req[r].resp.kind = "http_error" =>
                       req[r].ver.score = 40 /\ req[r].ver.status = "api_error"
                 /\ req[r].resp.kind = "network_error" =>
                       req[r].ver.score = 45 /\ req[r].ver.status = "network_error"
                 /\ req[r].resp.kind \notin {"ok", "http_error", "network_error"} =>
                       req[r].ver.score = 48 /\ req[r].ver.status = "unexpected_error"

\* The verify-only endpoint met a response without a score and answered 50.
C8_Witness ==
    \E r \in Reqs :
        /\ req[r].kind = "verify" /\ req[r].pc = "done" /\ configured
        /\ req[r].resp = [kind |-> "ok", score |-> AbsentScore]
        /\ req[r].ver = [score |-> 50, status |-> "verified", called |-> TRUE]

(* C9: with the requests served one after another, the hunter_score of every
   contact made by create is the score the verification call returned at its
   creation or at its last change of email. *)
C9_ScoreFromVerification ==
    \A c \in store :
        OriginOf(origin, c.id) # AbsentScore => c.hunter_score = OriginOf(origin, c.id)

\* A created contact whose email a later request changed, with another score.
C9_Witness ==
    /\ \E c \in store : /\ OriginOf(origin, c.id) # AbsentScore
                        /\ c.email # "new@x.io"
    /\ \E r \in Reqs : req[r].kind \in {"put", "patch"} /\ req[r].pc = "done"
                       /\ req[r].result = "OK" /\ req[r].ver # NoVerification

(* C10: no step of a PUT or PATCH changes an id: the stored ids stay the same,
   only the contact the request names may differ afterwards, and the contact
   returned has the id requested. *)
C10_IdFixed ==
    [][\A r \in Reqs :
         (req'[r].kind \in {"put", "patch"} /\ Steps(r) /\ req'[r].pc # "idle")
         => /\ Ids(store') = Ids(store)
            /\ \A c \in (store \ store') \cup (store' \ store) : c.id = req'[r].cid
            /\ (req'[r].pc = "done" /\ req'[r].result = "OK")
                  => req'[r].ret.id = req'[r].cid
      ]_vars

\* A PATCH has changed a contact and answered with it, under its id.
C10_Witness ==
    \E r \in Reqs :
        /\ req[r].kind = "patch" /\ req[r].pc = "done" /\ req[r].result = "OK"
        /\ req[r].ret.id = req[r].cid
        /\ req[r].ret \in store /\ req[r].ret \notin {SeedAlice, SeedBob}

\* The columns of a contact a request body can name.
BodyFields == {"first_name", "last_name", "email", "phone"}

(* C11: the write of a PATCH changes, in the contact it names, only fields
   present in the request, and the hunter_score only when the request changes
   the email; it leaves every other contact as it was; and a PATCH that does
   not change the email carries no verification call at any of its steps. *)
C11_PatchFrame ==
    [][\A r \in Reqs :
         /\ ( /\ req[r].kind = "patch" /\ Steps(r)
              /\ req[r].pc \in {"commit", "flushed"} )
            => /\ Ids(store') = Ids(store)
               /\ \A c \in store, d \in store' :
                     c.id = d.id =>
                        /\ c.id # req[r].cid => d = c
                        /\ \A f \in BodyFields \ FieldsSet(req[r].body) : d[f] = c[f]
                        /\ ~PatchChangesEmail(req[r].obj, req[r].body)
                              => d.hunter_score = c.hunter_score
         /\ ( /\ req'[r].kind = "patch" /\ Steps(r)
              /\ req'[r].pc \in {"check", "verify", "commit", "flushed", "failed"}
              /\ ~PatchChangesEmail(req'[r].obj, req'[r].body) )
            => /\ req'[r].ver = NoVerification /\ req'[r].resp = NoResponse
               /\ req'[r].pc \notin {"check", "verify"}
      ]_vars

\* A PATCH of the first name alone has answered: the other fields of the
\* contact are the seed's, and no verification was made.
C11_Witness ==
    \E r \in Reqs :
        /\ req[r].kind = "patch" /\ req[r].pc = "done" /\ req[r].result = "OK"
        /\ FieldsSet(req[r].body) = {"first_name"}
        /\ req[r].ver = NoVerification
        /\ req[r].ret = [SeedAlice EXCEPT !.first_name = "Al"]
        /\ req[r].ret \in store /\ SeedBob \in store

(* C12: the verify-only request answers with the verification client's result
   for the email it was given, whatever the table holds (also for an email a
   stored contact holds), and leaves the table as it was. *)
C12_VerifyOnly ==
    [][\A r \in Reqs :
         Starts(r, "verify") =>
            /\ store' = store
            /\ req'[r].pc = "done"
            /\ req'[r].result = "OK" =>
                  /\ req'[r].ver = verify_email_hunter(configured, req'[r].resp)
                  /\ req'[r].resp \in ResponsesFor(configured)
                  /\ EmailStr(req'[r].body.email)
      ]_vars

\* Bob's email was verified on its own: the answer is the client's, not the
\* stored score, and both seeds are stored as they were.
C12_Witness ==
    \E r \in Reqs :
        /\ req[r].kind = "verify" /\ req[r].pc = "done" /\ req[r].result = "OK"
        /\ req[r].body.email = SeedBob.email
        /\ req[r].ver.score # SeedBob.hunter_score
        /\ store = {SeedAlice, SeedBob}

(* C13: in every reachable state every stored contact has a first_name and a
   last_name of length at least 2 and an email that is not null: no request,
   not even a PATCH that sets one of the three explicitly to null, leaves a
   contact with a missing or too-short required field. *)
C13_RequiredFields ==
    \A c \in store :
        /\ MinLength2(c.first_name)
        /\ MinLength2(c.last_name)
        /\ c.email # NULLS

\* A PATCH with an explicit null in a required field passed validation and
\* has ended; the contact it named is stored with the field it had.
C13_Witness ==
    \E r \in Reqs :
        /\ req[r].kind = "patch" /\ req[r].pc = "done"
        /\ req[r].result # "ValidationError"
        /\ NULLS \in {req[r].body.first_name, req[r].body.last_name, req[r].body.email}
        /\ \E c \in store : c.id = req[r].cid /\ c = req[r].obj

(* C14: a listing answers with the stored contacts in ascending order of id,
   the first skip of that order dropped and at most limit of them kept. *)
C14_List ==
    \A r \in Reqs :
        (req[r].kind = "list" /\ req[r].pc = "done") =>
            LET all == OrderById(store)
                got == req[r].contacts
            IN /\ Len(got) <= req[r].limit
               /\ \A i \in 1..Len(got) :
                     /\ req[r].skip + i \in 1..Len(all)
                     /\ got[i] = all[req[r].skip + i]
               /\ Len(got) < req[r].limit => req[r].skip + Len(got) >= Len(all)

\* When neither skip nor limit is negative the listing is that slice, and the
\* listing leaves the table as it was.
ListOfNaturals ==
    [][\A r \in Reqs :
         Starts(r, "list") =>
            /\ store' = store
            /\ (req'[r].skip >= 0 /\ req'[r].limit >= 0) =>
                  LET all == OrderById(store)
                      got == req'[r].contacts
                  IN /\ Len(got) <= req'[r].limit
                     /\ \A i \in 1..Len(got) :
                           /\ req'[r].skip + i \in 1..Len(all)
                           /\ got[i] = all[req'[r].skip + i]
                     /\ Len(got) < req'[r].limit => req'[r].skip + Len(got) >= Len(all)
                     /\ \A i \in 1..(Len(got) - 1) : got[i].id < got[i + 1].id
      ]_vars

(* C15: the check of a create looks at the table alone and its write comes at
   a later step: a check whose SELECT is answered lets the create through to
   its write exactly when no stored contact holds the email, also while
   another create of the same email has passed its check and not yet written,
   so that two creates of one email stand before their write together. *)
C15_CheckThenWrite ==
    [][\A r \in Reqs :
         (req[r].kind = "create" /\ req[r].pc = "check" /\ Steps(r))
         => /\ store' = store
            /\ req'[r].pc = "commit" => ~(\E c \in store : c.email = req[r].body.email)
            /\ req'[r].pc # "commit" =>
                  /\ req'[r].pc = "done"
                  /\ req'[r].result \in {"Conflict", "OperationalError"}
                  /\ req'[r].result = "Conflict" =>
                        \E c \in store : c.email = req[r].body.email
                  /\ req'[r].result = "OperationalError" => PendingLocked(r)
      ]_vars

\* Two creates of one email have both passed the check; neither has written.
C15_Witness ==
    /\ \A r \in Reqs : req[r].kind = "create" /\ req[r].pc = "commit"
    /\ req["r1"].body.email = req["r2"].body.email
    /\ ~(\E c \in store : c.email = req["r1"].body.email)

(* C16: every create whose body is accepted has made exactly one verification
   call when it stands before its uniqueness check, and makes no other one
   afterwards: at the check, through the write, at the refresh and at its end, also
   when it ends in Conflict, its count of calls is 1. *)
C16_CreateVerifiesFirst ==
    \A r \in Reqs :
        req[r].kind = "create" =>
            IF req[r].result = "ValidationError"
            THEN req[r].calls = 0 /\ req[r].ver = NoVerification
            ELSE /\ req[r].pc \in {"check", "commit", "flushed", "failed", "refresh", "done"}
                 /\ req[r].calls = 1
                 /\ req[r].ver # NoVerification
                 /\ req[r].ver.called = configured

\* A create of a seed's email was refused, after its verification call.
C16_Witness ==
    \E r \in Reqs :
        /\ req[r].kind = "create" /\ req[r].pc = "done" /\ req[r].result = "Conflict"
        /\ req[r].calls = 1 /\ req[r].ver.called
        /\ req[r].body.email \in {SeedAlice.email, SeedBob.email}

\* r is a PUT or PATCH whose email differs from the one its contact was
\* loaded with.
ChangesEmail(s) ==
    \/ s.kind = "put" /\ s.body.email # s.obj.email
    \/ s.kind = "patch" /\ PatchChangesEmail(s.obj, s.body)

(* C17: a PUT or PATCH that changes the email makes its one verification call
   at the step after its uniqueness check has passed and before its write,
   and a write that succeeds stores the score of that call as the contact's
   hunter_score; no other step of an update makes a call, so an update that
   ends in NotFound or Conflict has made none. *)
C17_UpdateVerifiesOnce ==
    [][\A r \in Reqs :
         (req'[r].kind \in {"put", "patch"} /\ Steps(r) /\ req'[r].pc # "idle") =>
            /\ req'[r].calls = req[r].calls + (IF req[r].pc = "verify" THEN 1 ELSE 0)
            /\ req'[r].pc = "verify" =>
                  /\ req[r].pc = "check" /\ req'[r].calls = 0
                  /\ ~(\E c \in store : c.email = req[r].body.email)
            /\ req[r].pc = "verify" =>
                  /\ req'[r].pc = "commit" /\ req'[r].calls = 1
                  /\ req'[r].ver = verify_email_hunter(configured, req'[r].resp)
                  /\ store' = store
            /\ (req[r].pc \in {"commit", "flushed"} /\ ChangesEmail(req[r])) =>
                  /\ req[r].calls = 1
                  /\ req'[r].pc = "refresh" =>
                        \E c \in store' : /\ c.id = req[r].cid
                                           /\ c.email = req[r].body.email
                                           /\ c.hunter_score = req[r].ver.score
            /\ (req'[r].pc = "done" /\ req'[r].result \in {"NotFound", "Conflict"}) =>
                  req'[r].calls = 0 /\ req'[r].ver = NoVerification
      ]_vars

(* C18: once a delete has removed the contact a PUT or PATCH in flight had
   fetched, no step of that update writes: its check, its verification, its
   commit and its refresh leave the table as it is, so the id stays absent
   when the update has ended, and the update does not answer with a contact. *)
C18_StaysDeleted ==
    [][\A r \in Reqs :
         ( /\ req[r].kind \in {"put", "patch"} /\ Steps(r)
           /\ req[r].pc \in {"check", "verify", "commit", "flushed", "failed", "refresh"}
           /\ req[r].cid \notin Ids(store) )
         => /\ store' = store
            /\ req[r].cid \notin Ids(store')
            /\ req'[r].pc = "done" => (req'[r].result # "OK" /\ req'[r].ret = NoContact)
      ]_vars

\* An update had fetched a seed and made its verification call; a delete of
\* the seed committed meanwhile; the update's write found no row and the id
\* is absent now that both have ended.
C18_Witness ==
    \E r \in Reqs :
        /\ req[r].kind \in {"put", "patch"} /\ req[r].pc = "done"
        /\ req[r].result = "StaleDataError"
        /\ req[r].calls = 1
        /\ req[r].obj \in {SeedAlice, SeedBob}
        /\ req[r].cid \notin Ids(store)
        /\ \A q \in Reqs \ {r} : req[q].pc = "idle"

====
